---- MODULE Spec2Model ----
(***************************************************************************)
(* Model of po_translate_en_to_nb.py: the work-item builder                *)
(* (build_work_items), the batch partition (chunked) and the batch         *)
(* translation driver with per-item fallback (translate_po_file).          *)
(*                                                                         *)
(* A text is a sequence of atoms (a word, or one character of the         *)
(* placeholder syntax); the empty sequence is the empty string.  A catalog *)
(* (po) is a sequence of entries [msgid, msgstr, comment]; an entry object *)
(* is named by its position in the catalog.                                *)
(***************************************************************************)
EXTENDS Integers, Sequences, FiniteSets, TLC

(* ------------------------------ bounds --------------------------------- *)
MaxEntries == 3      \* most entries of a catalog besides the header
MaxBatch == 2        \* largest batch_size of a run
MaxResp == 2         \* most ids in one response mapping of call_model
MaxForeign == 1      \* most calls of a run that answer with a foreign id
MaxFairEntries == 2  \* most entries besides the header in the fair runs
MaxScan == 3         \* longest catalog scanned by the builder alone
MaxRetryEntries == 1 \* most entries besides the header in the runs with retries
MaxSource == 4       \* longest source text given to validate_placeholders
MaxTrans == 3        \* longest translation given to validate_placeholders

(* ------------------------------ texts ---------------------------------- *)
\* Python's None, for a text that was not chosen and for a null translation.
None == <<"None">>

\* Atoms matched by _EN_HINTS and _DE_HINTS, the German-specific characters
\* and the atoms holding a character >= 128.  A word atom is a run of
\* letters; no text of the model puts one right after a "%".
EN_HINTS == {"save", "cancel"}
DE_HINTS == {"und", "nicht"}
DE_CHARS == {"ue"}
NonAscii == {"ue", "aa"}

\* The character atoms of the placeholder syntax: what the classes of
\* _PLACEHOLDER_RE hold of them.  Flags stands for [-+0 #]* and the digits of
\* the width, Conversions for the conversion characters, WordChars for \w.
Flags == {"0"}
Conversions == {"s", "%"}
Specials == {"%", "{", "}"}
WordChars(a) == a \notin Specials

SeqRange(s) == {s[i] : i \in 1..Len(s)}

\* Python truthiness of an Optional[str].
truthy(s) == s # None /\ s # <<>>

looks_english(s) ==
    IF ~truthy(s) THEN FALSE
    ELSE LET asciiish == \A i \in 1..Len(s) : s[i] \notin NonAscii
         IN asciiish /\ (\E i \in 1..Len(s) : s[i] \in EN_HINTS)

looks_german(s) ==
    IF ~truthy(s) THEN FALSE
    ELSE IF \E i \in 1..Len(s) : s[i] \in DE_CHARS THEN TRUE
    ELSE \E i \in 1..Len(s) : s[i] \in DE_HINTS

\* Length of the match of _PLACEHOLDER_RE that starts at position i, 0 when
\* there is none: "%", flags and width, a conversion character; or "{", word
\* characters, "}".
match_at(text, i) ==
    LET n == Len(text)
        FlagsEnd == CHOOSE j \in (i + 1)..(n + 1) :
                       /\ \A q \in (i + 1)..(j - 1) : text[q] \in Flags
                       /\ (j = n + 1 \/ text[j] \notin Flags)
        WordEnd == CHOOSE j \in (i + 1)..(n + 1) :
                      /\ \A q \in (i + 1)..(j - 1) : WordChars(text[q])
                      /\ (j = n + 1 \/ ~WordChars(text[j]))
    IN IF text[i] = "%"
       THEN IF FlagsEnd <= n /\ text[FlagsEnd] \in Conversions
            THEN FlagsEnd - i + 1 ELSE 0
       ELSE IF text[i] = "{"
            THEN IF WordEnd <= n /\ text[WordEnd] = "}"
                 THEN WordEnd - i + 1 ELSE 0
            ELSE 0

\* _PLACEHOLDER_RE.finditer from position i on: leftmost matches, one after
\* the other, none overlapping.
RECURSIVE finditer(_, _)
finditer(text, i) ==
    IF i > Len(text) THEN <<>>
    ELSE IF match_at(text, i) > 0
         THEN <<SubSeq(text, i, i + match_at(text, i) - 1)>>
                  \o finditer(text, i + match_at(text, i))
         ELSE finditer(text, i + 1)

extract_placeholders(text) == finditer(text, 1)

\* Python's `ph in translation` for a non-empty ph.
contains(translation, ph) ==
    \E i \in 1..(Len(translation) - Len(ph) + 1) :
        SubSeq(translation, i, i + Len(ph) - 1) = ph

\* The number of positions of text at which ph occurs.
occurrences(text, ph) ==
    Cardinality({i \in 1..(Len(text) - Len(ph) + 1) :
                    SubSeq(text, i, i + Len(ph) - 1) = ph})

\* validate_placeholders comparing the number of occurrences.
validate_placeholders_counts(source, translation) ==
    LET src_ph == extract_placeholders(source)
        Seen(k) == Cardinality({j \in 1..k : src_ph[j] = src_ph[k]})
        missing == {k \in 1..Len(src_ph) :
                       Seen(k) > occurrences(translation, src_ph[k])}
        Nth(j) == CHOOSE k \in missing : Cardinality({q \in missing : q < k}) = j - 1
    IN [j \in 1..Cardinality(missing) |-> src_ph[Nth(j)]]

validate_placeholders(source, translation) ==
    LET src_ph == extract_placeholders(source)
        Missing(ph) == ~contains(translation, ph)
    IN IF src_ph = <<>> THEN <<>> ELSE SelectSeq(src_ph, Missing)

(* ------------------------- build_work_items ---------------------------- *)
\* choose_text with the force branch preferring msgid.
choose_text_force_msgid(entry, source_lang, force) ==
    LET pick_msgstr == [text |-> entry.msgstr, field |-> "msgstr"]
        pick_msgid == [text |-> entry.msgid, field |-> "msgid"]
        nothing == [text |-> None, field |-> "None"]
    IN IF force
       THEN pick_msgid
       ELSE IF source_lang = "en"
            THEN IF truthy(entry.msgstr) /\ looks_english(entry.msgstr) THEN pick_msgstr
                 ELSE IF looks_english(entry.msgid) THEN pick_msgid
                 ELSE nothing
            ELSE IF source_lang = "de" THEN pick_msgid
            ELSE IF truthy(entry.msgstr) /\ looks_english(entry.msgstr) THEN pick_msgstr
                 ELSE IF looks_german(entry.msgid) THEN pick_msgid
                 ELSE IF truthy(entry.msgstr) THEN pick_msgstr
                 ELSE pick_msgid

\* choose_text with the last resort of auto preferring msgid.
choose_text_auto_msgid_last(entry, source_lang, force) ==
    LET pick_msgstr == [text |-> entry.msgstr, field |-> "msgstr"]
        pick_msgid == [text |-> entry.msgid, field |-> "msgid"]
        nothing == [text |-> None, field |-> "None"]
    IN IF force
       THEN IF truthy(entry.msgstr) THEN pick_msgstr ELSE pick_msgid
       ELSE IF source_lang = "en"
            THEN IF truthy(entry.msgstr) /\ looks_english(entry.msgstr) THEN pick_msgstr
                 ELSE IF looks_english(entry.msgid) THEN pick_msgid
                 ELSE nothing
            ELSE IF source_lang = "de" THEN pick_msgid
            ELSE IF truthy(entry.msgstr) /\ looks_english(entry.msgstr) THEN pick_msgstr
                 ELSE IF looks_german(entry.msgid) THEN pick_msgid
                 ELSE pick_msgid

\* The text and field chosen for one non-header entry (lines 406-440).
choose_text(entry, source_lang, force) ==
    LET pick_msgstr == [text |-> entry.msgstr, field |-> "msgstr"]
        pick_msgid == [text |-> entry.msgid, field |-> "msgid"]
        nothing == [text |-> None, field |-> "None"]
    IN IF force
       THEN IF truthy(entry.msgstr) THEN pick_msgstr ELSE pick_msgid
       ELSE IF source_lang = "en"
            THEN IF truthy(entry.msgstr) /\ looks_english(entry.msgstr) THEN pick_msgstr
                 ELSE IF looks_english(entry.msgid) THEN pick_msgid
                 ELSE nothing
            ELSE IF source_lang = "de" THEN pick_msgid
            ELSE IF truthy(entry.msgstr) /\ looks_english(entry.msgstr) THEN pick_msgstr
                 ELSE IF looks_german(entry.msgid) THEN pick_msgid
                 ELSE IF truthy(entry.msgstr) THEN pick_msgstr
                 ELSE pick_msgid

detected_lang(text) ==
    IF looks_german(text) /\ ~looks_english(text) THEN "de" ELSE "en"

\* scan_entry without the test for an empty msgid.
scan_entry_counts_header(acc, catalog, k, source_lang, force) ==
    LET entry == catalog[k]
        chosen == choose_text(entry, source_lang, force)
        tmp_id == ToString(acc.id_counter + 1)
        counted == [acc EXCEPT !.total_entries = @ + 1]
    IN IF truthy(chosen.text)
       THEN [counted EXCEPT
               !.id_counter = @ + 1,
               !.work_items = Append(@, [id |-> tmp_id, text |-> chosen.text,
                                         lang |-> detected_lang(chosen.text)]),
               !.id_map = @ @@ (tmp_id :> [entry |-> k, field |-> chosen.field])]
       ELSE counted

\* scan_entry giving every counted entry a number, taken or not.
scan_entry_numbers_skipped(acc, catalog, k, source_lang, force) ==
    LET entry == catalog[k]
        chosen == choose_text(entry, source_lang, force)
        tmp_id == ToString(acc.id_counter + 1)
        counted == [acc EXCEPT !.total_entries = @ + 1, !.id_counter = @ + 1]
    IN IF entry.msgid = <<>> THEN acc
       ELSE IF truthy(chosen.text)
            THEN [counted EXCEPT
                    !.work_items = Append(@, [id |-> tmp_id, text |-> chosen.text,
                                              lang |-> detected_lang(chosen.text)]),
                    !.id_map = @ @@ (tmp_id :> [entry |-> k, field |-> chosen.field])]
            ELSE counted

\* One iteration of the scan loop for the entry at position k.
scan_entry(acc, catalog, k, source_lang, force) ==
    LET entry == catalog[k]
        chosen == choose_text(entry, source_lang, force)
        tmp_id == ToString(acc.id_counter + 1)
        counted == [acc EXCEPT !.total_entries = @ + 1]
    IN IF entry.msgid = <<>> THEN acc
       ELSE IF truthy(chosen.text)
            THEN [counted EXCEPT
                    !.id_counter = @ + 1,
                    !.work_items = Append(@, [id |-> tmp_id, text |-> chosen.text,
                                              lang |-> detected_lang(chosen.text)]),
                    !.id_map = @ @@ (tmp_id :> [entry |-> k, field |-> chosen.field])]
            ELSE counted

RECURSIVE scan_from(_, _, _, _, _)
scan_from(acc, catalog, k, source_lang, force) ==
    IF k > Len(catalog) THEN acc
    ELSE scan_from(scan_entry(acc, catalog, k, source_lang, force),
                   catalog, k + 1, source_lang, force)

build_work_items(catalog, source_lang, force) ==
    scan_from([work_items |-> <<>>, id_map |-> <<>>, id_counter |-> 0, total_entries |-> 0],
              catalog, 1, source_lang, force)

(* ------------------------------ chunked -------------------------------- *)
Min(a, b) == IF a < b THEN a ELSE b

\* range(0, len, n) for n >= 1, as the 1-based first index of each chunk.
chunk_starts(len, n) == {i \in 1..len : (i - 1) % n = 0}

\* chunked yielding only the chunks of full size.
chunked_drops_tail(lst, n) ==
    LET count == Len(lst) \div n
    IN [c \in 1..count |-> SubSeq(lst, (c - 1) * n + 1, c * n)]

\* The chunks yielded for n >= 1, in order.
chunked(lst, n) ==
    LET count == Cardinality(chunk_starts(Len(lst), n))
    IN [c \in 1..count |-> SubSeq(lst, (c - 1) * n + 1, Min(c * n, Len(lst)))]

(* ------------------------- call_model outcomes ------------------------- *)
\* Line 217: tenacity runs call_model up to this many times and raises
\* RetryError when the last attempt fails too.
stop_after_attempt == 5

\* Translations the model may give, and an id that no work item carries.
Translations == {<<"lagre", "%", "s">>}
UnknownId == "99"

\* The mappings call_model can return over these ids: at most len ids in
\* insertion order, each once, each with a translation or None.
Mappings(ids, len) ==
    LET Pairs == [id : ids, translation : Translations \cup {None}]
        Lists == UNION {[1..n -> Pairs] : n \in 0..len}
    IN {m \in Lists : \A i, j \in 1..Len(m) : i # j => m[i].id # m[j].id}

InsertAt(m, p, pair) == SubSeq(m, 1, p - 1) \o <<pair>> \o SubSeq(m, p, Len(m))

MappingIds(m) == {m[i].id : i \in 1..Len(m)}

\* The ids the mapping lists with a value that is not None.
Valued(m) == {m[i].id : i \in {j \in 1..Len(m) : m[j].translation # None}}

\* dict lookup: the value listed for id, None when id is not a key.
MappingGet(m, id) ==
    IF id \in MappingIds(m)
    THEN (CHOOSE p \in SeqRange(m) : p.id = id).translation
    ELSE None

\* The same mapping with its keys listed in the opposite order.
Reordered(m) == [k \in 1..Len(m) |-> m[Len(m) + 1 - k]]

(* ---------------------------- catalog file ----------------------------- *)
\* An entry: msgid, msgstr and comment (standing for all the entry data the
\* program reads nothing of: comments, msgctxt, occurrences, flags).
Header == [msgid |-> <<>>, msgstr |-> <<>>, comment |-> <<"header">>]
Body ==
    << [msgid |-> <<"save", "%", "s">>, msgstr |-> <<>>, comment |-> <<"c1">>],
       [msgid |-> <<"und", "%", "s">>, msgstr |-> <<>>, comment |-> <<"c2">>],
       [msgid |-> <<"xyz">>, msgstr |-> <<"cancel", "{", "0", "}">>, comment |-> <<"c3">>] >>
\* The k-th entry of a catalog file: the header entry in second place, the
\* body entries in turn around it.
FileEntry(k) ==
    IF k = 1 THEN Body[1]
    ELSE IF k = 2 THEN Header
    ELSE Body[((k - 2) % Len(Body)) + 1]
\* Catalog files of a run: up to MaxEntries entries besides the header.
RunCatalogs == {[k \in 1..n |-> FileEntry(k)] : n \in 0..(MaxEntries + 1)}

SOURCE_LANGUAGES == {"auto", "en", "de"}
BatchSizes == 0..MaxBatch

(* ------------------------------- state --------------------------------- *)
VARIABLES
    pc,                   \* position in translate_po_file / the dry-run scan
    po,                   \* the loaded catalog; entry k is po[k]
    batch_size,
    work_items, id_map, total_entries, total_to_translate,
    translated_count, placeholder_warnings, failed_items,
    bi,                   \* number of the batch being processed
    ii,                   \* position in the batch of the per-item fallback
    saved,                \* catalogs written by po.save, in order
    report,               \* the returned summary
    \* -- history, read by no operation --
    po0,                  \* the catalog as loaded
    call_log,             \* the inputs of every call_model invocation
    written,              \* ids whose entry was assigned and counted
    reply,                \* per id, what the last call carrying it answered
    msgstr_r,             \* msgstr fields of the run whose batch mappings
                          \* list their ids in the opposite order
    foreign,              \* calls so far that answered with an id that was
                          \* not in their input
    returned,             \* ids some call returned with a non-null value
    batch_reply,          \* per id, what its batch-level call answered
    progress_log,         \* the arguments of every progress_callback call
    attempt,              \* failed attempts so far of the call in progress
    attempts,             \* attempts made so far by the calls for this batch
    build_in,             \* arguments of the dry-run scan
    vp_in, vp_out         \* arguments and result of validate_placeholders

vars == <<pc, po, batch_size, work_items, id_map, total_entries,
          total_to_translate, translated_count, placeholder_warnings,
          failed_items, bi, ii, saved, report, po0, call_log, written,
          reply, msgstr_r, foreign, returned, batch_reply, progress_log,
          attempt, attempts, build_in, vp_in, vp_out>>

pure == <<build_in, vp_in, vp_out>>

driver == <<translated_count, placeholder_warnings, failed_items>>
built == <<work_items, id_map, total_entries, total_to_translate>>

Msgstrs(catalog) == [k \in 1..Len(catalog) |-> catalog[k].msgstr]
ItemIds(items) == [k \in 1..Len(items) |-> items[k].id]

Init ==
    /\ pc = "start"
    /\ po \in RunCatalogs
    /\ po0 = po
    /\ msgstr_r = Msgstrs(po)
    /\ batch_size = 0
    /\ work_items = <<>> /\ id_map = <<>>
    /\ total_entries = 0 /\ total_to_translate = 0
    /\ translated_count = 0
    /\ placeholder_warnings = <<>> /\ failed_items = <<>>
    /\ bi = 0 /\ ii = 0
    /\ saved = <<>>
    /\ report = [status |-> "running"]
    /\ call_log = <<>>
    /\ written = {}
    /\ reply = <<>>
    /\ foreign = 0
    /\ returned = {}
    /\ batch_reply = <<>>
    /\ progress_log = <<>>
    /\ attempt = 0
    /\ attempts = 0
    /\ build_in = [checked |-> FALSE]
    /\ vp_in = [checked |-> FALSE]
    /\ vp_out = None

(* ------------------------- translate_po_file --------------------------- *)
\* Lines 480-481, 489-492: the run aborts before any work.
AbortStart ==
    /\ pc = "start"
    /\ \E cause \in {"RuntimeError: OPENAI_API_KEY", "RuntimeError: load"} :
           report' = [status |-> "raised", error |-> cause]
    /\ pc' = "aborted"
    /\ UNCHANGED <<po, batch_size, built, driver, bi, ii, saved, po0,
                   call_log, written, reply, msgstr_r, foreign, returned, batch_reply,
                   progress_log, attempt, attempts, pure>>

\* Lines 494-502: build the work items, reset the accumulators and ask the
\* chunk generator for the first batch (range() raises for a step of 0).
Start ==
    /\ pc = "start"
    /\ \E source_lang \in SOURCE_LANGUAGES, force \in BOOLEAN, n \in BatchSizes :
         LET b == build_work_items(po, source_lang, force) IN
           /\ batch_size' = n
           /\ work_items' = b.work_items
           /\ id_map' = b.id_map
           /\ total_entries' = b.total_entries
           /\ total_to_translate' = Len(b.work_items)
           /\ reply' = [id \in DOMAIN b.id_map |-> [kind |-> "unsent"]]
           /\ batch_reply' = [id \in DOMAIN b.id_map |-> [kind |-> "unsent"]]
           /\ IF n = 0
              THEN /\ pc' = "aborted"
                   /\ report' = [status |-> "raised", error |-> "ValueError: range()"]
                   /\ bi' = 0
              ELSE /\ report' = report
                   /\ bi' = 1
                   /\ pc' = IF Len(chunked(b.work_items, n)) = 0 THEN "save" ELSE "batch"
    /\ translated_count' = 0
    /\ placeholder_warnings' = <<>>
    /\ failed_items' = <<>>
    /\ UNCHANGED <<po, ii, saved, po0, call_log, written, msgstr_r, foreign, returned,
                   progress_log, attempt, attempts, pure>>

\* The batch the generator yielded last.
CurrentBatch == chunked(work_items, batch_size)[bi]
BatchCount == Len(chunked(work_items, batch_size))

\* Line 509: the text of the first item of the batch with this id, else "".
orig_text(batch, tid) ==
    IF \E k \in 1..Len(batch) : batch[k].id = tid
    THEN batch[CHOOSE k \in 1..Len(batch) :
                 /\ batch[k].id = tid
                 /\ \A j \in 1..(k - 1) : batch[j].id # tid].text
    ELSE <<>>

\* store_translation taking the id for the position of the entry in the
\* catalog.
store_translation_by_position(d, tid, trans, source) ==
    LET missing_ph == validate_placeholders(source, trans)
        position == CHOOSE n \in 1..Len(d.msgstr) : ToString(n) = tid
    IN [d EXCEPT
          !.placeholder_warnings =
              IF missing_ph # <<>>
              THEN Append(@, [id |-> tid, source |-> source,
                              translation |-> trans, missing |-> missing_ph])
              ELSE @,
          !.msgstr[position] = trans,
          !.translated_count = @ + 1,
          !.written = @ \cup {tid}]

\* store_translation leaving the entry as it is when a placeholder is
\* missing.
store_translation_warning_blocks(d, tid, trans, source) ==
    LET missing_ph == validate_placeholders(source, trans)
    IN IF missing_ph # <<>>
       THEN [d EXCEPT
               !.placeholder_warnings =
                   Append(@, [id |-> tid, source |-> source,
                              translation |-> trans, missing |-> missing_ph])]
       ELSE [d EXCEPT
               !.msgstr[id_map[tid].entry] = trans,
               !.translated_count = @ + 1,
               !.written = @ \cup {tid}]

\* Lines 508-517 and 526-534: validate, warn, assign the entry, count.
\* d holds the msgstr fields and the accumulators the loop works on.
store_translation(d, tid, trans, source) ==
    LET missing_ph == validate_placeholders(source, trans)
    IN [d EXCEPT
          !.placeholder_warnings =
              IF missing_ph # <<>>
              THEN Append(@, [id |-> tid, source |-> source,
                              translation |-> trans, missing |-> missing_ph])
              ELSE @,
          !.msgstr[id_map[tid].entry] = trans,
          !.translated_count = @ + 1,
          !.written = @ \cup {tid}]

\* apply_from counting a null value as a translation.
RECURSIVE apply_from_counts_null(_, _, _, _)
apply_from_counts_null(d, m, k, sources) ==
    IF k > Len(m) THEN d
    ELSE IF m[k].translation = None
         THEN apply_from_counts_null([d EXCEPT !.translated_count = @ + 1],
                                     m, k + 1, sources)
    ELSE IF m[k].id \notin DOMAIN id_map THEN [d EXCEPT !.raised = TRUE]
    ELSE apply_from_counts_null(
             store_translation(d, m[k].id, m[k].translation, sources[m[k].id]),
             m, k + 1, sources)

\* Lines 505-517 and 523-534: the loop over translations.items() from its
\* k-th pair on; id_map[tid] raises KeyError for an id that is not a key.
RECURSIVE apply_from(_, _, _, _)
apply_from(d, m, k, sources) ==
    IF k > Len(m) THEN d
    ELSE IF m[k].translation = None THEN apply_from(d, m, k + 1, sources)
    ELSE IF m[k].id \notin DOMAIN id_map THEN [d EXCEPT !.raised = TRUE]
    ELSE apply_from(store_translation(d, m[k].id, m[k].translation, sources[m[k].id]),
                    m, k + 1, sources)

apply_batch(d, m, batch) ==
    apply_from(d, m, 1, [tid \in MappingIds(m) |-> orig_text(batch, tid)])

apply_single(d, m, item) ==
    apply_from(d, m, 1, [tid \in MappingIds(m) |-> item.text])

Working(msgstrs) ==
    [msgstr |-> msgstrs, translated_count |-> translated_count,
     placeholder_warnings |-> placeholder_warnings, written |-> written,
     raised |-> FALSE]

WithMsgstrs(catalog, msgstrs) ==
    [k \in 1..Len(catalog) |-> [catalog[k] EXCEPT !.msgstr = msgstrs[k]]]

Replies(m, ids, old) ==
    [id \in DOMAIN old |->
        IF id \in SeqRange(ids)
        THEN IF MappingGet(m, id) # None
             THEN [kind |-> "value", translation |-> MappingGet(m, id)]
             ELSE [kind |-> "missing"]
        ELSE old[id]]

Raised(ids, old) ==
    [id \in DOMAIN old |-> IF id \in SeqRange(ids) THEN [kind |-> "raised"] ELSE old[id]]

\* 1 when mapping m lists an id that was not in the input of its call.
Foreign(m, ids) == IF MappingIds(m) \subseteq SeqRange(ids) THEN 0 ELSE 1

\* Ids outside the input of a call that its answer may still list: an id no
\* work item carries and the id of one work item of another batch (the item
\* after the input's last one, or the first item when there is none after).
ForeignIds(ids) ==
    LET known == {k \in 1..Len(work_items) : work_items[k].id \notin SeqRange(ids)}
        after == {k \in known : \A j \in 1..Len(work_items) :
                                  work_items[j].id \in SeqRange(ids) => j < k}
        Least(S) == CHOOSE k \in S : \A j \in S : k <= j
    IN {UnknownId} \cup
       (IF known = {} THEN {}
        ELSE IF after # {} THEN {work_items[Least(after)].id}
        ELSE {work_items[Least(known)].id})

\* The mappings a call with these input ids may return: the ids of its
\* input, and in at most MaxForeign calls of the run one more id, with a
\* translation, that was not in the input.
Answers(ids) ==
    LET own == Mappings(SeqRange(ids), MaxResp)
        others == [id : ForeignIds(ids), translation : Translations]
        mixed == UNION {{InsertAt(m, p, pair) : p \in 1..(Len(m) + 1), pair \in others} :
                          m \in Mappings(SeqRange(ids), MaxResp - 1)}
    IN IF foreign < MaxForeign THEN own \cup mixed ELSE own

\* BatchCallRaises letting the RetryError leave translate_po_file.
BatchCallRaises_propagates ==
    /\ pc = "batch"
    /\ call_log' = Append(call_log, [kind |-> "batch", ids |-> ItemIds(CurrentBatch),
                                     outcome |-> "raised"])
    /\ attempts' = attempts + (stop_after_attempt - attempt)
    /\ attempt' = 0
    /\ reply' = Raised(ItemIds(CurrentBatch), reply)
    /\ batch_reply' = Raised(ItemIds(CurrentBatch), batch_reply)
    /\ pc' = "aborted"
    /\ report' = [status |-> "raised", error |-> "RetryError"]
    /\ UNCHANGED <<po, batch_size, built, driver, bi, ii, saved, po0,
                   written, msgstr_r, foreign, returned,
                   progress_log, pure>>

\* Lines 503-504, 518-519: the batch-level call raises.
BatchCallRaises ==
    /\ pc = "batch"
    /\ call_log' = Append(call_log, [kind |-> "batch", ids |-> ItemIds(CurrentBatch),
                                     outcome |-> "raised"])
    /\ attempts' = attempts + (stop_after_attempt - attempt)
    /\ attempt' = 0
    /\ reply' = Raised(ItemIds(CurrentBatch), reply)
    /\ batch_reply' = Raised(ItemIds(CurrentBatch), batch_reply)
    /\ pc' = "single"
    /\ ii' = 1
    /\ UNCHANGED <<po, batch_size, built, driver, bi, saved, report, po0,
                   written, msgstr_r, foreign, returned,
                   progress_log, pure>>

\* Lines 503-519: the batch-level call returns mapping m and the loop applies
\* it; a KeyError inside the loop is caught by the same handler.
BatchCallReturns ==
    /\ pc = "batch"
    /\ call_log' = Append(call_log, [kind |-> "batch", ids |-> ItemIds(CurrentBatch),
                                     outcome |-> "returned"])
    /\ attempts' = attempts + 1
    /\ attempt' = 0
    /\ \E m \in Answers(ItemIds(CurrentBatch)) :
           LET d == apply_batch(Working(Msgstrs(po)), m, CurrentBatch)
               dr == apply_batch(Working(msgstr_r), Reordered(m), CurrentBatch)
           IN /\ po' = WithMsgstrs(po, d.msgstr)
              /\ translated_count' = d.translated_count
              /\ placeholder_warnings' = d.placeholder_warnings
              /\ written' = d.written
              /\ msgstr_r' = dr.msgstr
              /\ reply' = Replies(m, ItemIds(CurrentBatch), reply)
              /\ batch_reply' = Replies(m, ItemIds(CurrentBatch), batch_reply)
              /\ pc' = IF d.raised THEN "single" ELSE "progress"
              /\ ii' = IF d.raised THEN 1 ELSE 0
              /\ returned' = returned \cup Valued(m)
              /\ foreign' = foreign + Foreign(m, ItemIds(CurrentBatch))
    /\ UNCHANGED <<batch_size, built, failed_items, bi, saved, report, po0,
                   progress_log, pure>>

\* Where the fallback loop goes after the item at position ii.
AfterItem ==
    /\ pc' = IF ii < Len(CurrentBatch) THEN "single" ELSE "progress"
    /\ ii' = IF ii < Len(CurrentBatch) THEN ii + 1 ELSE 0

\* SingleCallRaises swallowing the failure without recording it.
SingleCallRaises_silent ==
    /\ pc = "single"
    /\ LET item == CurrentBatch[ii] IN
         /\ call_log' = Append(call_log, [kind |-> "single", ids |-> <<item.id>>,
                                          outcome |-> "raised"])
         /\ attempts' = attempts + (stop_after_attempt - attempt)
         /\ attempt' = 0
         /\ reply' = Raised(<<item.id>>, reply)
    /\ failed_items' = failed_items
    /\ AfterItem
    /\ UNCHANGED <<po, batch_size, built, translated_count, placeholder_warnings,
                   bi, saved, report, po0, written, msgstr_r, foreign, returned, batch_reply,
                   progress_log, pure>>

\* SingleCallRaises leaving the fallback loop at the first failure.
SingleCallRaises_breaks ==
    /\ pc = "single"
    /\ LET item == CurrentBatch[ii] IN
         /\ call_log' = Append(call_log, [kind |-> "single", ids |-> <<item.id>>,
                                          outcome |-> "raised"])
         /\ attempts' = attempts + (stop_after_attempt - attempt)
         /\ attempt' = 0
         /\ failed_items' = Append(failed_items,
                [id |-> item.id, text |-> item.text, error |-> "RetryError"])
         /\ reply' = Raised(<<item.id>>, reply)
    /\ pc' = "progress"
    /\ ii' = 0
    /\ UNCHANGED <<po, batch_size, built, translated_count, placeholder_warnings,
                   bi, saved, report, po0, written, msgstr_r, foreign, returned, batch_reply,
                   progress_log, pure>>

\* Lines 520-522, 535-539: the call for one item raises.
SingleCallRaises ==
    /\ pc = "single"
    /\ LET item == CurrentBatch[ii] IN
         /\ call_log' = Append(call_log, [kind |-> "single", ids |-> <<item.id>>,
                                          outcome |-> "raised"])
         /\ attempts' = attempts + (stop_after_attempt - attempt)
         /\ attempt' = 0
         /\ failed_items' = Append(failed_items,
                [id |-> item.id, text |-> item.text, error |-> "RetryError"])
         /\ reply' = Raised(<<item.id>>, reply)
    /\ AfterItem
    /\ UNCHANGED <<po, batch_size, built, translated_count, placeholder_warnings,
                   bi, saved, report, po0, written, msgstr_r, foreign, returned, batch_reply,
                   progress_log, pure>>

\* Lines 520-539: the call for one item returns mapping m and the loop
\* applies it; a KeyError inside the loop makes the item a failed one.
SingleCallReturns ==
    /\ pc = "single"
    /\ LET item == CurrentBatch[ii] IN
         /\ call_log' = Append(call_log, [kind |-> "single", ids |-> <<item.id>>,
                                          outcome |-> "returned"])
         /\ attempts' = attempts + 1
         /\ attempt' = 0
         /\ \E m \in Answers(<<item.id>>) :
              LET d == apply_single(Working(Msgstrs(po)), m, item)
                  dr == apply_single(Working(msgstr_r), m, item)
              IN /\ po' = WithMsgstrs(po, d.msgstr)
                 /\ translated_count' = d.translated_count
                 /\ placeholder_warnings' = d.placeholder_warnings
                 /\ written' = d.written
                 /\ msgstr_r' = dr.msgstr
                 /\ reply' = Replies(m, <<item.id>>, reply)
                 /\ failed_items' =
                       IF d.raised
                       THEN Append(failed_items,
                              [id |-> item.id, text |-> item.text, error |-> "KeyError"])
                       ELSE failed_items
                 /\ returned' = returned \cup Valued(m)
                 /\ foreign' = foreign + Foreign(m, <<item.id>>)
    /\ AfterItem
    /\ UNCHANGED <<batch_size, built, bi, saved, report, po0, batch_reply,
                   progress_log, pure>>

\* Progress writing the catalog to the output file after each batch.
Progress_saves ==
    /\ pc = "progress"
    /\ progress_log' = Append(progress_log, [translated |-> translated_count,
                                              total |-> total_to_translate])
    /\ saved' = Append(saved, po)
    /\ attempts' = 0
    /\ bi' = bi + 1
    /\ pc' = IF bi < BatchCount THEN "batch" ELSE "save"
    /\ UNCHANGED <<po, batch_size, built, driver, ii, report, po0,
                   call_log, written, reply, msgstr_r, foreign, returned,
                   batch_reply, attempt, pure>>

\* Lines 541-542 and the next step of the for loop over chunked().
Progress ==
    /\ pc = "progress"
    /\ progress_log' = Append(progress_log, [translated |-> translated_count,
                                              total |-> total_to_translate])
    /\ attempts' = 0
    /\ bi' = bi + 1
    /\ pc' = IF bi < BatchCount THEN "batch" ELSE "save"
    /\ UNCHANGED <<po, batch_size, built, driver, ii, saved, report, po0,
                   call_log, written, reply, msgstr_r, foreign, returned, batch_reply,
                   attempt, pure>>

\* Line 545: po.save raises.
SaveRaises ==
    /\ pc = "save"
    /\ pc' = "aborted"
    /\ report' = [status |-> "raised", error |-> "save"]
    /\ UNCHANGED <<po, batch_size, built, driver, bi, ii, saved, po0,
                   call_log, written, reply, msgstr_r, foreign, returned, batch_reply,
                   progress_log, attempt, attempts, pure>>

\* Lines 545-554: persist the catalog and return the summary.
Save ==
    /\ pc = "save"
    /\ saved' = Append(saved, po)
    /\ pc' = "done"
    /\ report' = [status |-> "returned",
                  translated |-> translated_count,
                  total_entries |-> total_entries,
                  total_to_translate |-> total_to_translate,
                  placeholder_warnings |-> placeholder_warnings,
                  failed |-> failed_items]
    /\ UNCHANGED <<po, batch_size, built, driver, bi, ii, po0,
                   call_log, written, reply, msgstr_r, foreign, returned, batch_reply,
                   progress_log, attempt, attempts, pure>>

Next ==
    \/ AbortStart
    \/ Start
    \/ BatchCallRaises
    \/ BatchCallReturns
    \/ SingleCallRaises
    \/ SingleCallReturns
    \/ Progress
    \/ SaveRaises
    \/ Save

Spec == Init /\ [][Next]_vars

(* --------------------- the builder on its own -------------------------- *)
\* Entries for the scan: every branch of choose_text is taken by one of them.
ScanEntries ==
    { Header,
      [msgid |-> <<>>, msgstr |-> <<"save">>, comment |-> <<>>],
      [msgid |-> <<"save">>, msgstr |-> <<>>, comment |-> <<>>],
      [msgid |-> <<"xyz">>, msgstr |-> <<>>, comment |-> <<>>],
      [msgid |-> <<"xyz">>, msgstr |-> <<"cancel">>, comment |-> <<>>],
      [msgid |-> <<"xyz">>, msgstr |-> <<"aa">>, comment |-> <<>>],
      [msgid |-> <<"und">>, msgstr |-> <<"aa">>, comment |-> <<>>],
      [msgid |-> <<"save", "ue">>, msgstr |-> <<>>, comment |-> <<>>] }
ScanCatalogs == UNION {[1..n -> ScanEntries] : n \in 0..MaxScan}

InitBuild ==
    /\ pc = "build"
    /\ po \in ScanCatalogs
    /\ po0 = po
    /\ msgstr_r = Msgstrs(po)
    /\ build_in \in [checked : {TRUE}, source_lang : SOURCE_LANGUAGES, force : BOOLEAN]
    /\ batch_size = 0
    /\ work_items = <<>> /\ id_map = <<>>
    /\ total_entries = 0 /\ total_to_translate = 0
    /\ translated_count = 0
    /\ placeholder_warnings = <<>> /\ failed_items = <<>>
    /\ bi = 0 /\ ii = 0
    /\ saved = <<>>
    /\ report = [status |-> "running"]
    /\ call_log = <<>>
    /\ written = {}
    /\ reply = <<>>
    /\ foreign = 0
    /\ returned = {}
    /\ batch_reply = <<>>
    /\ progress_log = <<>>
    /\ attempt = 0
    /\ attempts = 0
    /\ vp_in = [checked |-> FALSE]
    /\ vp_out = None

\* Line 589 (the dry run): build_work_items alone.
BuildItems ==
    /\ pc = "build"
    /\ LET b == build_work_items(po, build_in.source_lang, build_in.force) IN
         /\ work_items' = b.work_items
         /\ id_map' = b.id_map
         /\ total_entries' = b.total_entries
         /\ total_to_translate' = Len(b.work_items)
    /\ pc' = "built"
    /\ UNCHANGED <<po, batch_size, driver, bi, ii, saved, report, po0,
                   call_log, written, reply, msgstr_r, foreign, returned, batch_reply,
                   progress_log, attempt, attempts, pure>>

NextBuild == BuildItems

SpecBuild == InitBuild /\ [][NextBuild]_vars

(* -------------------- validate_placeholders on its own ----------------- *)
\* Texts over the characters of the placeholder syntax, up to a length.
ValidateAlphabet == {"%", "s", "{", "}"}
Texts(len) == UNION {[1..n -> ValidateAlphabet] : n \in 0..len}

InitValidate ==
    /\ pc = "validate"
    /\ vp_in \in [checked : {TRUE}, source : Texts(MaxSource),
                  translation : Texts(MaxTrans)]
    /\ vp_out = None
    /\ po = <<>> /\ po0 = <<>> /\ msgstr_r = <<>>
    /\ build_in = [checked |-> FALSE]
    /\ batch_size = 0
    /\ work_items = <<>> /\ id_map = <<>>
    /\ total_entries = 0 /\ total_to_translate = 0
    /\ translated_count = 0
    /\ placeholder_warnings = <<>> /\ failed_items = <<>>
    /\ bi = 0 /\ ii = 0
    /\ saved = <<>>
    /\ report = [status |-> "running"]
    /\ call_log = <<>>
    /\ written = {}
    /\ reply = <<>>
    /\ foreign = 0
    /\ returned = {}
    /\ batch_reply = <<>>
    /\ progress_log = <<>>
    /\ attempt = 0
    /\ attempts = 0

\* Lines 71-80: one call of validate_placeholders.
Validate ==
    /\ pc = "validate"
    /\ vp_out' = validate_placeholders(vp_in.source, vp_in.translation)
    /\ pc' = "validated"
    /\ UNCHANGED <<po, batch_size, built, driver, bi, ii, saved, report, po0,
                   call_log, written, reply, msgstr_r, foreign, returned,
                   batch_reply, progress_log, attempt, attempts, build_in, vp_in>>

NextValidate == Validate

SpecValidate == InitValidate /\ [][NextValidate]_vars

(* ------------------------------ claims --------------------------------- *)
\* Positions of the entries with non-empty msgid, in catalog order.
NonHeader(catalog) ==
    LET Kept(k) == catalog[k].msgid # <<>>
    IN SelectSeq([k \in 1..Len(catalog) |-> k], Kept)

\* C9: with force set, the builder yields exactly one work item for every
\* entry with non-empty msgid, in catalog order, whatever the heuristics say
\* and whatever source_lang is; the item's text is the entry's msgstr when
\* that is non-empty and its msgid otherwise.
C9_ForceTakesEveryEntry ==
    (pc = "built" /\ build_in.force) =>
        LET idx == NonHeader(po) IN
          /\ Len(work_items) = Len(idx)
          /\ \A j \in 1..Len(idx) :
               /\ work_items[j].text =
                     IF po[idx[j]].msgstr # <<>> THEN po[idx[j]].msgstr
                     ELSE po[idx[j]].msgid
               /\ id_map[work_items[j].id].entry = idx[j]

\* A forced scan took an entry that neither heuristic accepts, from its
\* msgstr, and another entry from its msgid.
C9_Witness ==
    /\ pc = "built" /\ build_in.force /\ build_in.source_lang = "en"
    /\ \E j, k \in 1..Len(work_items) :
         /\ ~looks_english(work_items[j].text) /\ ~looks_german(work_items[j].text)
         /\ id_map[work_items[j].id].field = "msgstr"
         /\ id_map[work_items[k].id].field = "msgid"
         /\ ~looks_english(work_items[k].text)

\* C10: an entry with empty msgid gives no work item and no id_map key and
\* is not counted; total_entries is the number of entries with non-empty
\* msgid, in every mode.
C10_EmptySourceSkipped ==
    (pc = "built") =>
        /\ total_entries = Len(NonHeader(po))
        /\ Len(work_items) = Cardinality(DOMAIN id_map)
        /\ \A j \in 1..Len(work_items) : work_items[j].id \in DOMAIN id_map
        /\ \A id \in DOMAIN id_map : po[id_map[id].entry].msgid # <<>>

\* A scan met an entry with empty msgid and non-empty msgstr under force, next
\* to an entry that became a work item.
C10_Witness ==
    /\ pc = "built" /\ build_in.force
    /\ \E k \in 1..Len(po) : po[k].msgid = <<>> /\ po[k].msgstr # <<>>
    /\ Len(work_items) >= 1
    /\ total_entries < Len(po)

(* ------------------------- claims on the run --------------------------- *)
\* The runs for the progress claims: every step of the run that can be
\* taken is taken (each call returns or raises, the driver is sequential).
InitFair == Init /\ Len(NonHeader(po)) <= MaxFairEntries
FairSpec == InitFair /\ [][Next]_vars /\ WF_vars(Next)

(* ----------------------- the attempts of a call ------------------------ *)
\* AttemptFails with no stop condition.
AttemptFails_never_stops ==
    /\ pc \in {"batch", "single"}
    /\ attempt' = attempt + 1
    /\ attempts' = attempts + 1
    /\ UNCHANGED <<pc, po, batch_size, built, driver, bi, ii, saved, report, po0,
                   call_log, written, reply, msgstr_r, foreign, returned,
                   batch_reply, progress_log, pure>>

\* Lines 217-310: an attempt of the call in progress fails (the request
\* raises, or the response has no text, does not parse or is no list) and is
\* not the last one allowed, so tenacity waits and calls call_model again.
AttemptFails ==
    /\ pc \in {"batch", "single"}
    /\ attempt + 1 < stop_after_attempt
    /\ attempt' = attempt + 1
    /\ attempts' = attempts + 1
    /\ UNCHANGED <<pc, po, batch_size, built, driver, bi, ii, saved, report, po0,
                   call_log, written, reply, msgstr_r, foreign, returned,
                   batch_reply, progress_log, pure>>

\* The runs in which the attempts of each call are steps of their own.
InitRetry == Init /\ Len(NonHeader(po)) <= MaxRetryEntries
NextRetry == AttemptFails \/ Next
SpecRetry == InitRetry /\ [][NextRetry]_vars

FailedIds == {failed_items[i].id : i \in 1..Len(failed_items)}
Sent == UNION {SeqRange(call_log[i].ids) : i \in 1..Len(call_log)}
EntryOf(id) == id_map[id].entry
Untouched(id) == po[EntryOf(id)].msgstr = po0[EntryOf(id)].msgstr

\* C1: the returned summary has translated + (number of distinct ids in
\* failed) <= total_to_translate, whatever call_model answered.
C1_CountsWithinTotal ==
    (pc = "done") =>
        report.translated
          + Cardinality({report.failed[i].id : i \in 1..Len(report.failed)})
          <= report.total_to_translate

\* C2: at the end of the run every work item id is written and counted, or
\* recorded in failed, or absent/null in the response with its entry
\* untouched, and no id that was written and counted is also recorded in
\* failed or in the untouched class.
C2_ExactlyOneClass ==
    (pc = "done") =>
        \A id \in DOMAIN id_map :
          LET wr == id \in written
              fa == id \in FailedIds
              un == reply[id].kind = "missing" /\ Untouched(id)
          IN /\ wr \/ fa \/ un
             /\ ~(wr /\ fa) /\ ~(wr /\ un)

\* C3 as claimed: at the end of the run every work item was written (with or
\* without a placeholder warning) or is listed in failed.
C3_NoneDropped ==
    (pc = "done") =>
        \A id \in DOMAIN id_map : id \in written \/ id \in FailedIds

\* C3 as amended: at the end of the run every work item was written, is
\* listed in failed, or was answered with no value (absent or null) by the
\* last call that carried it; every work item was carried by some call.
C3_WrittenFailedOrUnanswered ==
    (pc = "done") =>
        \A id \in DOMAIN id_map :
          /\ id \in Sent
          /\ id \in written \/ id \in FailedIds \/ reply[id].kind = "missing"

\* A finished run with one item written, one failed and one that the last
\* call carrying it left unanswered.
C3_Witness ==
    /\ pc = "done"
    /\ \E a, b, c \in DOMAIN id_map :
         /\ a \in written /\ a \notin FailedIds
         /\ b \in FailedIds /\ b \notin written
         /\ c \notin written /\ c \notin FailedIds /\ reply[c].kind = "missing"

\* C4: the run that differs only in the order in which its batch-level
\* mappings list their ids ends with the same msgstr in every entry.
C4_OrderIndependentJoin ==
    (pc = "done") => msgstr_r = Msgstrs(po)

\* The last batch-level call of the log.
LastBatchCall ==
    call_log[CHOOSE p \in 1..Len(call_log) :
               /\ call_log[p].kind = "batch"
               /\ \A q \in (p + 1)..Len(call_log) : call_log[q].kind # "batch"]

\* C5: after a batch-level call that raised, each step of the fallback calls
\* call_model for the next item of the batch and the run goes on; when the
\* call returns the item's id with a non-null value the entry's msgstr is
\* that value and translated grows by at least 1; when the call raises,
\* exactly one failed record (id, text, error) is added and translated stays.
C5_FallbackPerItem ==
    [][ (pc = "single" /\ LastBatchCall.outcome = "raised") =>
          LET item == CurrentBatch[ii] IN
            /\ Len(call_log') = Len(call_log) + 1
            /\ call_log'[Len(call_log')].kind = "single"
            /\ call_log'[Len(call_log')].ids = <<item.id>>
            /\ pc' \in {"single", "progress"}
            /\ (pc' = "single") => (ii' = ii + 1)
            /\ (pc' = "progress") => (ii = Len(CurrentBatch))
            /\ (reply'[item.id].kind = "value") =>
                  /\ po'[EntryOf(item.id)].msgstr = reply'[item.id].translation
                  /\ translated_count' >= translated_count + 1
            /\ (reply'[item.id].kind = "raised") =>
                  /\ Len(failed_items') = Len(failed_items) + 1
                  /\ failed_items'[Len(failed_items')].id = item.id
                  /\ failed_items'[Len(failed_items')].text = item.text
                  /\ translated_count' = translated_count
      ]_vars

\* C6: the entry of every item recorded in failed has, at the end of the
\* run, the msgstr it had when the catalog was loaded.
C6_FailedEntryUntouched ==
    (pc = "done") => \A id \in FailedIds : Untouched(id)

\* Every batch whose call was followed by the per-item fallback had one
\* call per item, in batch order.
FallbacksComplete ==
    \A p \in 1..Len(call_log) :
      (/\ call_log[p].kind = "batch"
       /\ p < Len(call_log)
       /\ call_log[p + 1].kind = "single")
      => /\ p + Len(call_log[p].ids) <= Len(call_log)
         /\ \A j \in 1..Len(call_log[p].ids) :
              /\ call_log[p + j].kind = "single"
              /\ call_log[p + j].ids = <<call_log[p].ids[j]>>

\* C7: once the driver loop is entered (batch_size >= 1), the run reaches the
\* persist step with every work item passed to call_model in some call and
\* with every item of a batch that fell back attempted on its own, whatever
\* calls raised on the way.
C7_AllAttemptedThenPersist ==
    (pc \in {"batch", "single", "progress"})
        ~> (pc = "save" /\ DOMAIN id_map \subseteq Sent /\ FallbacksComplete)

\* The persist step is reached after the first item failed in a batch that a
\* later batch follows.
C7_Witness ==
    /\ pc = "save"
    /\ Len(failed_items) >= 1
    /\ failed_items[1].id = "1"
    /\ \E p \in 1..Len(call_log) :
         /\ call_log[p].kind = "batch"
         /\ call_log[p].ids[1] # "1"
    /\ DOMAIN id_map \subseteq Sent

\* The inputs of the batch-level calls, in call order.
BatchInputs ==
    LET IsBatch(c) == c.kind = "batch"
        calls == SelectSeq(call_log, IsBatch)
    IN [k \in 1..Len(calls) |-> calls[k].ids]

RECURSIVE Concat(_)
Concat(ss) == IF ss = <<>> THEN <<>> ELSE Head(ss) \o Concat(Tail(ss))

\* C8: for n work items and batch_size b >= 1 the driver has called
\* call_model for exactly ceil(n/b) batches when it reaches the persist step:
\* contiguous slices of the work-item list in list order, of size b except
\* possibly the last, each work item in exactly one of them.
C8_BatchPartition ==
    (pc \in {"save", "done"}) =>
        LET n == Len(work_items)
            b == batch_size
        IN /\ Len(BatchInputs) = (n + b - 1) \div b
           /\ Concat(BatchInputs) = ItemIds(work_items)
           /\ \A k \in 1..Len(BatchInputs) :
                /\ Len(BatchInputs[k]) >= 1
                /\ Len(BatchInputs[k]) <= b
                /\ (k < Len(BatchInputs)) => (Len(BatchInputs[k]) = b)

\* Three work items with batch_size 2 gave batches of 2 and 1.
C8_Witness ==
    /\ pc = "save"
    /\ Len(work_items) = 3 /\ batch_size = 2
    /\ Len(BatchInputs) = 2
    /\ Len(BatchInputs[1]) = 2 /\ Len(BatchInputs[2]) = 1

\* The work item with this id.
ItemOf(id) == work_items[CHOOSE k \in 1..Len(work_items) : work_items[k].id = id]

\* Every batch-level call returned, with a non-null translation for each id
\* of its input that keeps every placeholder of the item's text.
EveryBatchAnswered ==
    /\ \A p \in 1..Len(call_log) :
         call_log[p].kind = "batch" => call_log[p].outcome = "returned"
    /\ \A id \in DOMAIN id_map :
         /\ batch_reply[id].kind = "value"
         /\ validate_placeholders(ItemOf(id).text, batch_reply[id].translation) = <<>>

\* C11: when every batch-level call returns, for each id of its batch, a
\* non-null translation that keeps all placeholders of the source, the run
\* reports translated = total_to_translate = number of work items, no
\* placeholder warning and no failed item, and the persisted catalog has in
\* every selected entry's msgstr the value returned for its id.
C11_EndToEnd ==
    (pc = "done" /\ EveryBatchAnswered) =>
        /\ report.translated = report.total_to_translate
        /\ report.total_to_translate = Len(work_items)
        /\ report.placeholder_warnings = <<>>
        /\ report.failed = <<>>
        /\ Len(saved) = 1
        /\ \A id \in DOMAIN id_map :
             saved[1][EntryOf(id)].msgstr = batch_reply[id].translation

\* t is a literal substring of text.
Within(t, text) ==
    \E a \in 0..Len(text) : \E b \in a..Len(text) : SubSeq(text, a + 1, b) = t

\* C12: validate_placeholders(source, translation) is, in source occurrence
\* order, exactly the tokens extracted from source that are not literal
\* substrings of translation: presence decides, not the number of
\* occurrences; so the result is empty for translation = source and
\* whenever source has no token.
C12_MissingByPresence ==
    (pc = "validated") =>
        LET toks == extract_placeholders(vp_in.source)
            absent == {k \in 1..Len(toks) : ~Within(toks[k], vp_in.translation)}
            Nth(j) == CHOOSE k \in absent : Cardinality({q \in absent : q < k}) = j - 1
        IN /\ Len(vp_out) = Cardinality(absent)
           /\ \A j \in 1..Len(vp_out) : vp_out[j] = toks[Nth(j)]
           /\ (vp_in.translation = vp_in.source) => (vp_out = <<>>)
           /\ (toks = <<>>) => (vp_out = <<>>)

\* A source with the same token twice, a translation holding it once, and
\* nothing reported.
C12_Witness ==
    /\ pc = "validated"
    /\ LET toks == extract_placeholders(vp_in.source) IN
         /\ Len(toks) = 2 /\ toks[1] = toks[2]
         /\ occurrences(vp_in.translation, toks[1]) = 1
    /\ vp_out = <<>>

\* What may end a run early: the missing key, the catalog that does not
\* load, the catalog that cannot be saved.
AbortCauses == {"RuntimeError: OPENAI_API_KEY", "RuntimeError: load", "save"}

\* C13: no failure of call_model leaves translate_po_file.  A batch-level
\* call that raised is followed by the per-item calls, a per-item call that
\* raised has its record in failed, and a run with batch_size >= 1 ends early
\* only for the missing key, the load failure or the failure of po.save;
\* once a call was made, only for the failure of po.save.
C13_FailuresAbsorbed ==
    /\ (pc = "aborted" /\ report.error \notin AbortCauses) =>
           (batch_size = 0 /\ call_log = <<>>)
    /\ (pc = "aborted" /\ call_log # <<>>) => (report.error = "save")
    /\ \A p \in 1..Len(call_log) :
         /\ (call_log[p].kind = "single" /\ call_log[p].outcome = "raised") =>
               (\E i \in 1..Len(failed_items) : failed_items[i].id = call_log[p].ids[1])
         /\ (call_log[p].kind = "batch" /\ call_log[p].outcome = "raised") =>
               IF p = Len(call_log) THEN pc = "single"
               ELSE call_log[p + 1].kind = "single"

\* A run returned its summary after a batch-level call raised, a per-item
\* call raised and a response named an id that is no key of id_map.
C13_Witness ==
    /\ pc = "done" /\ report.status = "returned"
    /\ \E p, q \in 1..Len(call_log) :
         /\ call_log[p].kind = "batch" /\ call_log[p].outcome = "raised"
         /\ call_log[q].kind = "single" /\ call_log[q].outcome = "raised"
    /\ UnknownId \in returned

\* C14: all that a run changes in the catalog is the msgstr of entries whose
\* work item id some call_model call returned with a non-null value: every
\* msgid and comment, the header entry and the entries without a work item
\* stay as loaded, building the work items changes nothing, and what is
\* saved is that catalog.
C14_OnlyReturnedMsgstrChanges ==
    /\ Len(po) = Len(po0)
    /\ \A k \in 1..Len(po) :
         /\ po[k].msgid = po0[k].msgid
         /\ po[k].comment = po0[k].comment
         /\ (po[k].msgstr # po0[k].msgstr) =>
               \E id \in DOMAIN id_map : id_map[id].entry = k /\ id \in returned
    /\ (call_log = <<>>) => (po = po0)
    /\ \A i \in 1..Len(saved) : saved[i] = po

\* A saved catalog with the header entry, an entry whose msgstr changed and a
\* work item entry that kept its msgstr.
C14_Witness ==
    /\ pc = "done"
    /\ \E h, k \in 1..Len(po) :
         /\ po0[h].msgid = <<>>
         /\ saved[1][k].msgstr # po0[k].msgstr
    /\ \E id \in DOMAIN id_map : id \notin returned /\ Untouched(id)

\* The warnings appended by a step.
NewWarnings ==
    [j \in 1..(Len(placeholder_warnings') - Len(placeholder_warnings)) |->
        placeholder_warnings'[Len(placeholder_warnings) + j]]

\* C15: when a batch-level call returns, an id of the batch that its
\* response leaves out or lists with null keeps its entry's msgstr, is not
\* counted in translated and gets no record in failed or in
\* placeholder_warnings: translated grows by no more than the ids of the
\* batch listed with a value and the ids listed that are not of the batch.
C15_AbsentOrNullUntouched ==
    [][ (pc = "batch" /\ Len(call_log') = Len(call_log) + 1
            /\ call_log'[Len(call_log')].outcome = "returned") =>
          LET ids == ItemIds(CurrentBatch)
              unanswered == {id \in SeqRange(ids) : batch_reply'[id].kind = "missing"}
          IN /\ \A id \in unanswered :
                  /\ po'[EntryOf(id)].msgstr = po[EntryOf(id)].msgstr
                  /\ id \in written' => id \in written
                  /\ \A j \in 1..Len(NewWarnings) : NewWarnings[j].id # id
             /\ failed_items' = failed_items
             /\ translated_count' - translated_count
                  <= (Len(ids) - Cardinality(unanswered)) + (foreign' - foreign)
      ]_vars

\* A batch-level call returned a response with no value for either id of
\* its batch, and the driver went on to report progress.
C15_Witness ==
    /\ pc = "progress"
    /\ Len(CurrentBatch) = 2
    /\ call_log[Len(call_log)].kind = "batch"
    /\ call_log[Len(call_log)].outcome = "returned"
    /\ \A k \in 1..2 : batch_reply[CurrentBatch[k].id].kind = "missing"
    /\ translated_count = 0 /\ failed_items = <<>>

\* C16: a missing placeholder never blocks the write.  Every warning a step
\* appends has a non-empty missing list, the entry of its id has the
\* warning's translation as msgstr after the step, and translated grew by at
\* least the number of warnings appended, after a batch-level call and after
\* a per-item call alike.
C16_WarningNeverBlocksWrite ==
    [][ /\ Len(placeholder_warnings') >= Len(placeholder_warnings)
        /\ SubSeq(placeholder_warnings', 1, Len(placeholder_warnings))
              = placeholder_warnings
        /\ \A j \in 1..Len(NewWarnings) :
             /\ NewWarnings[j].missing # <<>>
             /\ NewWarnings[j].id \in DOMAIN id_map
             /\ po'[EntryOf(NewWarnings[j].id)].msgstr = NewWarnings[j].translation
             /\ NewWarnings[j].id \in written'
        /\ (pc \in {"batch", "single"}) =>
              translated_count' - translated_count >= Len(NewWarnings)
      ]_vars

\* Warnings from a batch-level response and from a per-item response, the
\* entry holding the translation that lost the placeholder.
C16_Witness ==
    /\ pc = "done"
    /\ Len(placeholder_warnings) >= 2
    /\ \E p, q \in 1..Len(call_log) :
         /\ p < q
         /\ call_log[p].kind = "batch" /\ call_log[p].outcome = "returned"
         /\ placeholder_warnings[1].id \in SeqRange(call_log[p].ids)
         /\ call_log[q].kind = "single" /\ call_log[q].outcome = "returned"
         /\ call_log[q].ids = <<placeholder_warnings[2].id>>
    /\ \A j \in 1..2 :
         saved[1][EntryOf(placeholder_warnings[j].id)].msgstr
            = placeholder_warnings[j].translation

(* ------------------------ claims on the builder ------------------------ *)
\* The field the priorities of a mode name for an entry, "skip" for none.
Priority(entry, mode) ==
    LET english_msgstr == entry.msgstr # <<>> /\ looks_english(entry.msgstr)
    IN CASE mode = "en" ->
              IF english_msgstr THEN "msgstr"
              ELSE IF looks_english(entry.msgid) THEN "msgid" ELSE "skip"
         [] mode = "de" -> "msgid"
         [] mode = "auto" ->
              IF english_msgstr THEN "msgstr"
              ELSE IF looks_german(entry.msgid) THEN "msgid"
              ELSE IF entry.msgstr # <<>> THEN "msgstr" ELSE "msgid"

\* C17: without force, build_work_items takes the text of each entry with
\* non-empty msgid by the priorities of the mode (en: English msgstr, else
\* English msgid, else no work item; de: msgid; auto: English msgstr, else
\* German msgid, else non-empty msgstr, else msgid), so only mode en leaves
\* such an entry without a work item.
C17_ChoosePriorities ==
    (pc = "built" /\ ~build_in.force) =>
        LET mode == build_in.source_lang
            Taken(k) == Priority(po[k], mode) # "skip"
            sel == SelectSeq(NonHeader(po), Taken)
        IN /\ Len(work_items) = Len(sel)
           /\ \A j \in 1..Len(sel) :
                /\ id_map[work_items[j].id].entry = sel[j]
                /\ id_map[work_items[j].id].field = Priority(po[sel[j]], mode)
                /\ work_items[j].text =
                     IF Priority(po[sel[j]], mode) = "msgstr"
                     THEN po[sel[j]].msgstr ELSE po[sel[j]].msgid
           /\ (mode # "en") => (Len(work_items) = total_entries)

\* A scan in mode en that took one entry from its msgstr, one from its msgid
\* and left a third without a work item.
C17_Witness ==
    /\ pc = "built" /\ ~build_in.force
    /\ build_in.source_lang = "en"
    /\ total_entries = 3 /\ Len(work_items) = 2
    /\ \E a, b \in DOMAIN id_map :
         id_map[a].field = "msgstr" /\ id_map[b].field = "msgid"

\* C18: the ids build_work_items assigns are "1", "2", ..., "n" in scan
\* order, without gap or reuse: the k-th work item has id k, id_map has
\* exactly these n keys, the entries of successive ids follow one another in
\* the catalog, and each key maps to the entry and the field its work item's
\* text was taken from.
C18_DenseIds ==
    (pc = "built") =>
        LET n == Len(work_items) IN
          /\ \A k \in 1..n : work_items[k].id = ToString(k)
          /\ DOMAIN id_map = {ToString(k) : k \in 1..n}
          /\ \A k \in 1..n :
               LET ref == id_map[ToString(k)] IN
                 /\ ref.entry \in 1..Len(po)
                 /\ ref.field \in {"msgid", "msgstr"}
                 /\ work_items[k].text =
                      IF ref.field = "msgstr" THEN po[ref.entry].msgstr
                      ELSE po[ref.entry].msgid
                 /\ (k < n) => (ref.entry < id_map[ToString(k + 1)].entry)

\* A scan that skipped the entry between the two it gave the ids "1" and "2".
C18_Witness ==
    /\ pc = "built"
    /\ Len(work_items) = 2
    /\ id_map["1"].entry = 1 /\ id_map["2"].entry = 3
    /\ po[2].msgid # <<>>

(* --------------------- claims on the run, continued -------------------- *)
\* C19: progress_callback is called once after each batch, whether its call
\* returned or the per-item calls took over, so ceil(n/batch_size) times in a
\* run; every call carries the number of work items as total, and the
\* translated values never decrease and never exceed that total.
C19_ProgressPerBatch ==
    (pc \in {"save", "done"}) =>
        /\ Len(progress_log) = (Len(work_items) + batch_size - 1) \div batch_size
        /\ Len(progress_log) = Len(BatchInputs)
        /\ \A i \in 1..Len(progress_log) :
             /\ progress_log[i].total = Len(work_items)
             /\ progress_log[i].translated <= progress_log[i].total
             /\ (i > 1) => (progress_log[i - 1].translated <= progress_log[i].translated)

\* C20: every call of call_model makes at most 5 attempts, a call raises to
\* the driver (to start the per-item calls, or to be recorded in failed)
\* with its 5th failed attempt and not before, and the calls made for a
\* batch of k items make at most 5 + 5k attempts.
C20_AtMostFiveAttempts ==
    [][ /\ attempt < 5 /\ attempt' < 5
        /\ (pc \in {"batch", "single"}) =>
              /\ attempts' <= 5 + 5 * Len(CurrentBatch)
              /\ (Len(call_log') = Len(call_log) + 1) =>
                    /\ attempt + (attempts' - attempts) <= 5
                    /\ (call_log'[Len(call_log')].outcome = "raised") =>
                          (attempt + (attempts' - attempts) = 5)
        /\ (Len(failed_items') > Len(failed_items)
              /\ failed_items'[Len(failed_items')].error = "RetryError") =>
                 (attempt + (attempts' - attempts) = 5)
      ]_vars

\* The calls for a batch of one item made 10 attempts: the batch-level call
\* raised with its 5th attempt and the per-item call returned at its 5th.
C20_Witness ==
    /\ pc = "progress"
    /\ Len(CurrentBatch) = 1
    /\ attempts = 10
    /\ Len(call_log) >= 2
    /\ call_log[Len(call_log) - 1].kind = "batch"
    /\ call_log[Len(call_log) - 1].outcome = "raised"
    /\ call_log[Len(call_log)].outcome = "returned"

\* C21: the catalog is saved exactly once in a run that completes, after the
\* last batch and its per-item calls were processed; nothing is saved before
\* that, and once it is saved no call_model call is made and no entry
\* changes; a run that ends for the missing key or the load failure has saved
\* nothing and called call_model never.
C21_PersistedOnceAtTheEnd ==
    [][ /\ (pc' = "done") =>
              /\ Len(saved') = 1
              /\ saved'[1] = po'
              /\ Len(BatchInputs') = Len(chunked(work_items', batch_size'))
              /\ Len(progress_log') = Len(BatchInputs')
              /\ FallbacksComplete'
        /\ (pc' # "done") => (saved' = <<>>)
        /\ (saved # <<>>) => (call_log' = call_log /\ po' = po /\ saved' = saved)
        /\ (pc' = "aborted" /\ report'.error \in
                {"RuntimeError: OPENAI_API_KEY", "RuntimeError: load"}) =>
              (saved' = <<>> /\ call_log' = <<>>)
      ]_vars

\* A completed run of two batches, one of them with per-item calls and a
\* failed item, saved once with a changed entry.
C21_Witness ==
    /\ pc = "done"
    /\ Len(saved) = 1
    /\ Len(BatchInputs) = 2
    /\ Len(failed_items) >= 1
    /\ \E k \in 1..Len(po) : saved[1][k].msgstr # po0[k].msgstr

\* C22: an entry's msgstr is written only while the response to a call whose
\* input held that entry's work item is applied: a step that applies a
\* response changes the msgstr of entries of the ids of its input only,
\* marks only those ids written, and adds to translated no more than the
\* number of those ids the response gave a value.
C22_WritesOnlyForInputIds ==
    [][ (pc \in {"batch", "single"} /\ Len(call_log') = Len(call_log) + 1) =>
          LET ids == SeqRange(call_log'[Len(call_log')].ids)
              valued == {id \in ids : reply'[id].kind = "value"}
          IN /\ \A k \in 1..Len(po) :
                  (po'[k].msgstr # po[k].msgstr) =>
                     \E id \in ids : id_map[id].entry = k
             /\ (written' \ written) \subseteq ids
             /\ translated_count' - translated_count <= Cardinality(valued)
      ]_vars

====
